---- MODULE Spec2Model ----
(***************************************************************************)
(* A model of snore (src/src/main.rs): a terminal timer that sums duration *)
(* tokens NUMBER[UNIT] into a total, repaints elapsed / remaining time on  *)
(* a 10 ms tick until the total has elapsed, and then prints the total.    *)
(*                                                                         *)
(* A std::time::Duration is the record [secs, nanos] with nanos < 10^9, as *)
(* in the standard library.  A token is a sequence of one-character        *)
(* strings.  A parsed f64 is kept as the exact decimal it denotes          *)
(* (sign, mantissa, number of fractional digits); the tokens of the model  *)
(* denote whole numbers of nanoseconds, for which Duration::from_secs_f64  *)
(* (round to nearest nanosecond) returns exactly that number.              *)
(***************************************************************************)
EXTENDS Integers, Sequences, FiniteSets, TLC

VARIABLES
    times,                  \* Options.times: the duration tokens
    print_ascending_time,   \* Options.print_ascending_time (-a)
    print_descending_time,  \* Options.print_descending_time (-d)
    pc,                     \* position of the program
    idx,                    \* parse_duration: index of the next argument
    duration,               \* parse_duration: the running total
    result,                 \* outcome of parse_duration
    sleep_duration,         \* main: the total to wait for
    clock,                  \* time since `start` (the environment's clock)
    elapsed,                \* main: start.elapsed() of the latest poll
    line,                   \* stdout: text written since the last clear-line
    newline,                \* stdout: the output ends with a newline
    repaints,               \* stdout: clear-lines written inside the loop
    finals,                 \* stdout: clear-lines written after the loop
    stderr,                 \* the error stream
    exit_code,              \* process exit status, -1 while running
    seconds,                \* format_duration: its argument
    formatted               \* format_duration: its return value

vars == <<times, print_ascending_time, print_descending_time, pc, idx, duration,
          result, sleep_duration, clock, elapsed, line, newline, repaints,
          finals, stderr, exit_code, seconds, formatted>>

-----------------------------------------------------------------------------
(* Bounds of the model *)

\* the longest token list
MaxTokens == 2
\* the largest delay, in jitter steps, added to one poll of the clock
MaxJitter == 2
\* the largest number of days given to format_duration
MaxDays == 11

\* one jitter step of the clock, in nanoseconds (2.5 ms)
JitterStep == 2500 * 1000

-----------------------------------------------------------------------------
(* std::time::Duration *)

NanosPerSec == 1000 * 1000 * 1000
NanosPerMilli == 1000 * 1000

DurationNew(s, n) == [secs |-> s, nanos |-> n]

DurationZero == DurationNew(0, 0)

DurationFromMillis(ms) == DurationNew(ms \div 1000, (ms % 1000) * NanosPerMilli)

DurationLess(a, b) ==
    \/ a.secs < b.secs
    \/ a.secs = b.secs /\ a.nanos < b.nanos

DurationGe(a, b) == ~DurationLess(a, b)

DurationAdd(a, b) ==
    LET n == a.nanos + b.nanos
    IN  IF n >= NanosPerSec
        THEN DurationNew(a.secs + b.secs + 1, n - NanosPerSec)
        ELSE DurationNew(a.secs + b.secs, n)

\* Duration - Duration; the caller has checked that b <= a (otherwise a panic)
DurationSub(a, b) ==
    IF a.nanos >= b.nanos
    THEN DurationNew(a.secs - b.secs, a.nanos - b.nanos)
    ELSE DurationNew(a.secs - b.secs - 1, a.nanos + NanosPerSec - b.nanos)

as_secs(d) == d.secs

as_millis(d) == d.secs * 1000 + d.nanos \div NanosPerMilli

-----------------------------------------------------------------------------
(* Characters and numbers *)

DigitChars == <<"0", "1", "2", "3", "4", "5", "6", "7", "8", "9">>

DigitSet == {DigitChars[k] : k \in 1..10}

Lower == {"a", "b", "c", "d", "e", "f", "g", "h", "i", "j", "k", "l", "m",
          "n", "o", "p", "q", "r", "s", "t", "u", "v", "w", "x", "y", "z"}

Upper == {"A", "B", "C", "D", "E", "F", "G", "H", "I", "J", "K", "L", "M",
          "N", "O", "P", "Q", "R", "S", "T", "U", "V", "W", "X", "Y", "Z"}

\* char::is_alphabetic, on the ASCII characters of the model's tokens
is_alphabetic(c) == c \in Lower \cup Upper

DigitVal(c) == CHOOSE v \in 0..9 : DigitChars[v + 1] = c

RECURSIVE DecValue(_)
DecValue(s) ==
    IF s = <<>> THEN 0
    ELSE DecValue(SubSeq(s, 1, Len(s) - 1)) * 10 + DigitVal(s[Len(s)])

RECURSIVE Pow10(_)
Pow10(k) == IF k = 0 THEN 1 ELSE 10 * Pow10(k - 1)

\* argument.find(char::is_alphabetic): the first alphabetic position, 0 for None
FindAlphabetic(argument) ==
    LET hits == {k \in 1..Len(argument) : is_alphabetic(argument[k])}
    IN  IF hits = {} THEN 0
        ELSE CHOOSE k \in hits : \A j \in hits : k <= j

\* the (value, unit) split of one argument
ValuePart(argument) ==
    LET index == FindAlphabetic(argument)
    IN  IF index = 0 THEN argument ELSE SubSeq(argument, 1, index - 1)

UnitPart(argument) ==
    LET index == FindAlphabetic(argument)
    IN  IF index = 0 THEN <<"s">> ELSE SubSeq(argument, index, Len(argument))

\* value.parse::<f64>() on a string without alphabetic characters: an optional
\* sign, then digits with at most one '.', at least one digit in all.
\* The number is (-1)^neg * mant / 10^scale.
ParseF64(value) ==
    LET signed == Len(value) > 0 /\ value[1] \in {"+", "-"}
        body   == IF signed THEN Tail(value) ELSE value
        dots   == {k \in 1..Len(body) : body[k] = "."}
        digs   == {k \in 1..Len(body) : body[k] \in DigitSet}
        ok     == /\ Cardinality(dots) <= 1
                  /\ Cardinality(digs) >= 1
                  /\ dots \cup digs = 1..Len(body)
        scale  == IF dots = {} THEN 0 ELSE Len(body) - (CHOOSE k \in dots : TRUE)
    IN  IF ok
        THEN [ok |-> TRUE, neg |-> signed /\ value[1] = "-",
              mant |-> DecValue(SelectSeq(body, LAMBDA c : c \in DigitSet)),
              scale |-> scale]
        ELSE [ok |-> FALSE, neg |-> FALSE, mant |-> 0, scale |-> 0]

-----------------------------------------------------------------------------
(* parse_duration *)

Units == {<<"m", "s">>, <<"s">>, <<"m">>, <<"h">>, <<"d">>}

\* the f64 handed to Duration::from_secs_f64 by the arm of `match unit`,
\* as the fraction num / den of a second with its sign
UnitSeconds(number, unit) ==
    LET den == Pow10(number.scale)
    IN  CASE unit = <<"m", "s">> -> [neg |-> number.neg, num |-> number.mant, den |-> den * 1000]
          [] unit = <<"s">>      -> [neg |-> number.neg, num |-> number.mant, den |-> den]
          [] unit = <<"m">>      -> [neg |-> number.neg, num |-> number.mant * 60, den |-> den]
          [] unit = <<"h">>      -> [neg |-> number.neg, num |-> number.mant * 60 * 60, den |-> den]
          [] unit = <<"d">>      -> [neg |-> number.neg, num |-> number.mant * 60 * 60 * 24, den |-> den]

\* Duration::from_secs_f64 panics on a negative value (-0.0 is not negative)
FromSecsPanics(x) == x.neg /\ x.num > 0

\* Duration::from_secs_f64 of a non-negative value whose denominator divides 10^9
from_secs_f64(x) ==
    DurationNew(x.num \div x.den, (x.num % x.den) * (NanosPerSec \div x.den))

\* impl Display for ParsingError
Display(e) ==
    CASE e = "InvalidNumber" -> "Error: Invalid number format"
      [] e = "InvalidUnit"   -> "Error: Invalid unit format"

\* the body of `for argument in arguments` on one argument: the number is
\* parsed first, then the unit is matched, then the arm's Duration is built
ArgumentResult(argument) ==
    LET number == ParseF64(ValuePart(argument))
        unit   == UnitPart(argument)
    IN  IF ~number.ok
        THEN [tag |-> "InvalidNumber", add |-> DurationZero]
        ELSE IF unit \notin Units
        THEN [tag |-> "InvalidUnit", add |-> DurationZero]
        ELSE IF FromSecsPanics(UnitSeconds(number, unit))
        THEN [tag |-> "panic", add |-> DurationZero]
        ELSE [tag |-> "ok", add |-> from_secs_f64(UnitSeconds(number, unit))]

\* one iteration of `for argument in arguments`
ParseArgument ==
    /\ pc = "parse"
    /\ idx <= Len(times)
    /\ LET r == ArgumentResult(times[idx])
       IN  /\ result' = (IF r.tag = "ok" THEN result ELSE r.tag)
           /\ pc' = (IF r.tag = "ok" THEN "parse"
                     ELSE IF r.tag = "panic" THEN "exit" ELSE "match")
           /\ duration' = (IF r.tag = "ok" THEN DurationAdd(duration, r.add) ELSE duration)
           /\ idx' = (IF r.tag = "ok" THEN idx + 1 ELSE idx)
           /\ stderr' = (IF r.tag = "panic"
                         THEN "panicked: cannot convert float seconds to Duration: value is negative"
                         ELSE stderr)
           /\ exit_code' = (IF r.tag = "panic" THEN 101 ELSE exit_code)
    /\ UNCHANGED <<times, print_ascending_time, print_descending_time, sleep_duration,
                   clock, elapsed, line, newline, repaints, finals, seconds, formatted>>

\* the end of the loop: Ok(duration)
ParseReturn ==
    /\ pc = "parse"
    /\ idx > Len(times)
    /\ result' = "Ok"
    /\ pc' = "match"
    /\ UNCHANGED <<times, print_ascending_time, print_descending_time, idx, duration,
                   sleep_duration, clock, elapsed, line, newline, repaints, finals,
                   stderr, exit_code, seconds, formatted>>

-----------------------------------------------------------------------------
(* format_duration *)

RECURSIVE Dec(_)
\* format!("{}", n) of an unsigned integer
Dec(n) == IF n < 10 THEN DigitChars[n + 1] ELSE Dec(n \div 10) \o DigitChars[(n % 10) + 1]

\* format!("{n:02}") and format!("{n:03}"): zero-padded to a minimum width
Pad2(n) == IF n < 10 THEN "0" \o Dec(n) ELSE Dec(n)

Pad3(n) == IF n < 10 THEN "00" \o Dec(n) ELSE IF n < 100 THEN "0" \o Dec(n) ELSE Dec(n)

RECURSIVE Join(_, _)
\* parts.join(sep)
Join(parts, sep) ==
    IF Len(parts) = 0 THEN ""
    ELSE IF Len(parts) = 1 THEN parts[1]
    ELSE parts[1] \o sep \o Join(Tail(parts), sep)

\* the floor-division cascade on as_secs() and as_millis()
FmtDays(d) == as_secs(d) \div (60 * 60 * 24)

\* a cascade that forgets `remaining_seconds %= 60 * 60 * 24`
FmtHours_NoModulo(d) == as_secs(d) \div (60 * 60)

FmtHours(d) == (as_secs(d) % (60 * 60 * 24)) \div (60 * 60)

FmtMinutes(d) == ((as_secs(d) % (60 * 60 * 24)) % (60 * 60)) \div 60

FmtSeconds(d) == ((as_secs(d) % (60 * 60 * 24)) % (60 * 60)) % 60

FmtMilliseconds(d) == as_millis(d) % 1000

format_duration(d) ==
    LET clock_part == Pad2(FmtHours(d)) \o "h " \o Pad2(FmtMinutes(d)) \o "m "
                      \o Pad2(FmtSeconds(d)) \o "s " \o Pad3(FmtMilliseconds(d)) \o "ms"
        parts == IF FmtDays(d) > 0
                 THEN <<Dec(FmtDays(d)) \o "d", clock_part>>
                 ELSE <<clock_part>>
    IN  Join(parts, " ")

\* a call of format_duration on the argument `seconds`
FormatCall ==
    /\ pc = "format"
    /\ formatted' = format_duration(seconds)
    /\ pc' = "formatted"
    /\ UNCHANGED <<times, print_ascending_time, print_descending_time, idx, duration,
                   result, sleep_duration, clock, elapsed, line, newline, repaints,
                   finals, stderr, exit_code, seconds>>

-----------------------------------------------------------------------------
(* main *)

\* a tick of 5 ms
tick_Short == DurationFromMillis(5)

\* let tick = Duration::from_millis(10)
tick == DurationFromMillis(10)

\* the clock readings one poll may be late by
Jitter == {DurationNew(0, k * JitterStep) : k \in 0..MaxJitter}

\* Err(e) => { eprintln!("{e}"); process::exit(1) }
MainErr ==
    /\ pc = "match"
    /\ result \in {"InvalidNumber", "InvalidUnit"}
    /\ stderr' = Display(result)
    /\ exit_code' = 1
    /\ pc' = "exit"
    /\ UNCHANGED <<times, print_ascending_time, print_descending_time, idx, duration,
                   result, sleep_duration, clock, elapsed, line, newline, repaints,
                   finals, seconds, formatted>>

\* a main that starts the timer whatever parse_duration returned
MainStart_IgnoresErr ==
    /\ pc = "match"
    /\ sleep_duration' = duration
    /\ \E late \in Jitter : clock' = late
    /\ pc' = "running"
    /\ UNCHANGED <<times, print_ascending_time, print_descending_time, idx, duration,
                   result, elapsed, line, newline, repaints, finals, stderr,
                   exit_code, seconds, formatted>>

\* Ok(duration) => duration; let start = Instant::now()
MainStart ==
    /\ pc = "match"
    /\ result = "Ok"
    /\ sleep_duration' = duration
    /\ \E late \in Jitter : clock' = late
    /\ pc' = "running"
    /\ UNCHANGED <<times, print_ascending_time, print_descending_time, idx, duration,
                   result, elapsed, line, newline, repaints, finals, stderr,
                   exit_code, seconds, formatted>>

\* `if elapsed > sleep_duration { break; }`
Expired_Strict(e, total) == DurationLess(total, e)

\* `if elapsed >= sleep_duration { break; }`
Expired(e, total) == DurationGe(e, total)

\* a loop that prints the elapsed time whether or not -a is given
TickLine_AlwaysElapsed(asc, desc, e, total) ==
    format_duration(e)
    \o (IF asc /\ desc THEN " | " ELSE "")
    \o (IF desc THEN format_duration(DurationSub(total, e)) ELSE "")

\* a loop that prints the separator when either flag is given
TickLine_SeparatorOnEither(asc, desc, e, total) ==
    (IF asc THEN format_duration(e) ELSE "")
    \o (IF asc \/ desc THEN " | " ELSE "")
    \o (IF desc THEN format_duration(DurationSub(total, e)) ELSE "")

\* the text one iteration prints after the clear-line sequence
TickLine(asc, desc, e, total) ==
    (IF asc THEN format_duration(e) ELSE "")
    \o (IF asc /\ desc THEN " | " ELSE "")
    \o (IF desc THEN format_duration(DurationSub(total, e)) ELSE "")

\* `sleep_duration - elapsed` panics when elapsed > sleep_duration
SubPanics(desc, e, total) == desc /\ DurationLess(total, e)

\* one iteration that repaints, flushes and sleeps for the tick
LoopTick ==
    /\ pc = "running"
    /\ ~Expired(clock, sleep_duration)
    /\ elapsed' = clock
    /\ repaints' = repaints + 1
    /\ IF SubPanics(print_descending_time, clock, sleep_duration)
       THEN /\ line' = (IF print_ascending_time THEN format_duration(clock) ELSE "")
                       \o (IF print_ascending_time /\ print_descending_time THEN " | " ELSE "")
            /\ stderr' = "panicked: overflow when subtracting durations"
            /\ exit_code' = 101
            /\ pc' = "exit"
            /\ UNCHANGED clock
       ELSE /\ line' = TickLine(print_ascending_time, print_descending_time,
                                clock, sleep_duration)
            /\ \E late \in Jitter : clock' = DurationAdd(DurationAdd(clock, tick), late)
            /\ UNCHANGED <<pc, stderr, exit_code>>
    /\ UNCHANGED <<times, print_ascending_time, print_descending_time, idx, duration,
                   result, sleep_duration, newline, finals, seconds, formatted>>

\* one iteration whose `stdout().flush()?` fails: main returns the error
LoopFlushError ==
    /\ pc = "running"
    /\ ~Expired(clock, sleep_duration)
    /\ ~SubPanics(print_descending_time, clock, sleep_duration)
    /\ elapsed' = clock
    /\ repaints' = repaints + 1
    /\ line' = TickLine(print_ascending_time, print_descending_time, clock, sleep_duration)
    /\ stderr' = "Error: flush failed"
    /\ exit_code' = 1
    /\ pc' = "exit"
    /\ UNCHANGED <<times, print_ascending_time, print_descending_time, idx, duration,
                   result, sleep_duration, clock, newline, finals, seconds, formatted>>

\* the iteration that observes elapsed >= sleep_duration and breaks
LoopBreak ==
    /\ pc = "running"
    /\ Expired(clock, sleep_duration)
    /\ elapsed' = clock
    /\ pc' = "done"
    /\ UNCHANGED <<times, print_ascending_time, print_descending_time, idx, duration,
                   result, sleep_duration, clock, line, newline, repaints, finals,
                   stderr, exit_code, seconds, formatted>>

\* a final repaint that shows the elapsed time in place of the total
FinalRepaint_ShowsElapsed ==
    /\ pc = "done"
    /\ line' = format_duration(elapsed)
    /\ newline' = TRUE
    /\ finals' = finals + 1
    /\ exit_code' = 0
    /\ pc' = "exit"
    /\ UNCHANGED <<times, print_ascending_time, print_descending_time, idx, duration,
                   result, sleep_duration, clock, elapsed, repaints, stderr,
                   seconds, formatted>>

\* after the loop: clear the line, println! the total, return Ok(())
FinalRepaint ==
    /\ pc = "done"
    /\ line' = format_duration(sleep_duration)
    /\ newline' = TRUE
    /\ finals' = finals + 1
    /\ exit_code' = 0
    /\ pc' = "exit"
    /\ UNCHANGED <<times, print_ascending_time, print_descending_time, idx, duration,
                   result, sleep_duration, clock, elapsed, repaints, stderr,
                   seconds, formatted>>

-----------------------------------------------------------------------------
(* Inputs *)

\* duration tokens of a few milliseconds, and malformed ones, for whole runs
MainTokens ==
    { <<"2", "5", "m", "s">>,          \* 25ms
      <<".", "0", "1">>,               \* .01   (no unit: seconds)
      <<"0", ".", "0", "2", "s">>,     \* 0.02s
      <<"0">>,                         \* 0
      <<"1", "x">>,                    \* 1x    (bad unit)
      <<"a", "b", "c", "s">>,          \* abcs  (no number)
      <<"-", "5", "m", "s">> }         \* -5ms  (negative)

\* the tokens of the parser's contract
ParseTokens ==
    { <<"1", "0", "0", "0", "m", "s">>,
      <<"1", "s">>, <<"6", "0", "s">>, <<"1", "0", "s">>,
      <<"1", "m">>, <<"6", "0", "m">>,
      <<"1", "h">>, <<"2", "4", "h">>, <<"1", ".", "5", "h">>,
      <<"1", "d">>,
      <<"5">>, <<"+", ".", "5">>,
      <<"1", "0", "x">>, <<"5", "S">>, <<"1", "e", "3">>,
      <<"a", "b", "c", "s">>, <<"1", ".", "2", ".", "3", "s">>, <<>>,
      <<"-", "5", "s">>, <<"-", "5", "x">> }

TokenLists(tokens) == UNION {[1..n -> tokens] : n \in 1..MaxTokens}

\* the arguments of format_duration
FormatInputs ==
    { DurationNew(((dd * 24 + hh) * 60 + mm) * 60 + ss, nn) :
        dd \in 0..MaxDays, hh \in {0, 1, 23}, mm \in {0, 1, 59}, ss \in {0, 1, 59},
        nn \in {0, 999999, 1000000, 500000000, 999999999} }

-----------------------------------------------------------------------------
(* Specifications *)

InitWith(lists) ==
    /\ times \in lists
    /\ print_ascending_time \in BOOLEAN
    /\ print_descending_time \in BOOLEAN
    /\ pc = "parse"
    /\ idx = 1
    /\ duration = DurationZero
    /\ result = "none"
    /\ sleep_duration = DurationZero
    /\ clock = DurationZero
    /\ elapsed = DurationZero
    /\ line = ""
    /\ newline = FALSE
    /\ repaints = 0
    /\ finals = 0
    /\ stderr = ""
    /\ exit_code = -1
    /\ seconds = DurationZero
    /\ formatted = ""

\* the whole program
Init == InitWith(TokenLists(MainTokens))

Next ==
    \/ ParseArgument
    \/ ParseReturn
    \/ MainErr
    \/ MainStart
    \/ LoopTick
    \/ LoopFlushError
    \/ LoopBreak
    \/ FinalRepaint

Spec == Init /\ [][Next]_vars

\* the display loop runs on: the single thread takes its next iteration,
\* and after the break its final repaint
LiveSpec ==
    /\ Init
    /\ [][Next]_vars
    /\ WF_vars(LoopTick \/ LoopFlushError)
    /\ WF_vars(LoopBreak)
    /\ WF_vars(FinalRepaint)

\* parse_duration alone
ParseInit ==
    /\ InitWith(TokenLists(ParseTokens))
    /\ print_ascending_time = FALSE
    /\ print_descending_time = FALSE

ParseNext == ParseArgument \/ ParseReturn

ParseSpec == ParseInit /\ [][ParseNext]_vars

\* format_duration alone
FormatInit ==
    /\ times = <<>>
    /\ print_ascending_time = FALSE
    /\ print_descending_time = FALSE
    /\ pc = "format"
    /\ idx = 1
    /\ duration = DurationZero
    /\ result = "none"
    /\ sleep_duration = DurationZero
    /\ clock = DurationZero
    /\ elapsed = DurationZero
    /\ line = ""
    /\ newline = FALSE
    /\ repaints = 0
    /\ finals = 0
    /\ stderr = ""
    /\ exit_code = -1
    /\ seconds \in FormatInputs
    /\ formatted = ""

FormatNext == FormatCall

FormatSpec == FormatInit /\ [][FormatNext]_vars

-----------------------------------------------------------------------------
(* Properties *)

ParseErrors == {"InvalidNumber", "InvalidUnit"}

FlushFailed == pc = "exit" /\ result = "Ok" /\ exit_code = 1

\* the remaining time of a repaint that shows the elapsed time e
Remaining(e) == DurationSub(sleep_duration, e)

\* C1: when parse_duration returns InvalidNumber or InvalidUnit, the program
\* prints the matching error line and exits with status 1, and no repaint,
\* intermediate or final, is ever written.
C1_ParseErrorNoTimer ==
    result \in ParseErrors =>
        /\ pc \in {"match", "exit"}
        /\ repaints = 0 /\ finals = 0 /\ line = "" /\ ~newline
        /\ pc = "exit" =>
              /\ exit_code = 1
              /\ stderr = IF result = "InvalidNumber"
                          THEN "Error: Invalid number format"
                          ELSE "Error: Invalid unit format"

C1_Witness ==
    /\ times = << <<"1", "x">> >>
    /\ pc = "exit"
    /\ result = "InvalidUnit"
    /\ stderr = "Error: Invalid unit format"
    /\ exit_code = 1

\* C2 as stated: every run whose tokens parse ends with exactly one final
\* repaint of format(total) and a newline, and with exit status 0.
C2_Original ==
    (pc = "exit" /\ result = "Ok") =>
        /\ finals = 1
        /\ line = format_duration(sleep_duration)
        /\ newline
        /\ exit_code = 0

\* C2, amended: in every run whose tokens parse and in which no flush of the
\* output fails, the loop ends with exactly one final repaint, format(total)
\* and a newline, written only after elapsed >= total was observed, and the
\* process then exits with status 0; the poll that observes elapsed >= total
\* writes no intermediate repaint; nothing is written after the final
\* repaint.  A failed flush ends the run with status 1 and no final repaint.
C2_FinalRepaint ==
    /\ [](/\ finals <= 1
          /\ finals = 1 =>
                /\ DurationGe(elapsed, sleep_duration)
                /\ pc = "exit" /\ exit_code = 0
                /\ line = format_duration(sleep_duration) /\ newline
          /\ (pc = "exit" /\ result = "Ok") => (finals = 1 \/ FlushFailed)
          /\ FlushFailed => finals = 0 /\ ~newline)
    /\ [][(pc = "running" /\ DurationGe(clock, sleep_duration)) =>
            (pc' = "done" /\ repaints' = repaints /\ line' = line /\ finals' = 0)]_vars
    /\ [][finals = 1 => UNCHANGED <<line, newline, repaints, finals>>]_vars
    /\ (pc = "running") ~> (pc = "exit")

C2_Witness ==
    /\ pc = "exit"
    /\ finals = 1
    /\ repaints >= 2
    /\ DurationLess(sleep_duration, elapsed)
    /\ line = "00h 00m 00s 025ms"
    /\ exit_code = 0

C4_ElapsedRemaining ==
    /\ [](exit_code # 101 \/ result = "panic")
    /\ [][repaints' = repaints + 1 =>
            /\ DurationLess(elapsed', sleep_duration)
            /\ Remaining(elapsed').secs >= 0
            /\ Remaining(elapsed').nanos \in 0..(NanosPerSec - 1)
            /\ DurationAdd(elapsed', Remaining(elapsed')) = sleep_duration
            /\ repaints > 0 =>
                  /\ DurationLess(elapsed, elapsed')
                  /\ DurationLess(Remaining(elapsed'), Remaining(elapsed))]_vars

C4_Witness ==
    /\ print_ascending_time /\ print_descending_time
    /\ pc = "running"
    /\ repaints >= 3
    /\ line = "00h 00m 00s 035ms | 00h 00m 00s 010ms"

\* C9: the text of an intermediate repaint is format(elapsed) iff -a, then
\* " | " iff both flags, then format(total - elapsed) iff -d.
C9_TickLineOrder ==
    [][repaints' = repaints + 1 =>
        line' = CASE print_ascending_time /\ print_descending_time ->
                       format_duration(elapsed') \o " | " \o format_duration(Remaining(elapsed'))
                  [] print_ascending_time /\ ~print_descending_time ->
                       format_duration(elapsed')
                  [] ~print_ascending_time /\ print_descending_time ->
                       format_duration(Remaining(elapsed'))
                  [] OTHER -> ""]_vars

C9_Witness ==
    /\ ~print_ascending_time /\ print_descending_time
    /\ repaints >= 2
    /\ line = "00h 00m 00s 002ms"

TotalNanos(d) == d.secs * NanosPerSec + d.nanos

\* C10 as stated: the loop stays in "running" on exactly the polls where
\* elapsed < total.
C10_Original ==
    [][(pc = "running" /\ DurationLess(clock, sleep_duration)) => pc' = "running"]_vars

\* C10, amended: with a clock that advances by at least the 10 ms tick
\* between polls the loop always ends: "done" is reached unless a flush of
\* the output fails, which ends the process with status 1; a poll with
\* elapsed >= total leaves "running" for "done", a poll with elapsed < total
\* stays in "running" unless its flush fails; there are at most
\* ceil(total / 10 ms) intermediate repaints.
C10_Termination ==
    /\ (pc = "running") ~> (pc = "exit")
    /\ []((pc = "exit" /\ result = "Ok") => (finals = 1 \/ FlushFailed))
    /\ [][(pc = "running" /\ DurationGe(clock, sleep_duration)) => pc' = "done"]_vars
    /\ [][(pc = "running" /\ DurationLess(clock, sleep_duration)) =>
            (pc' = "running" \/ (pc' = "exit" /\ exit_code' = 1))]_vars
    /\ [][(pc = "running" /\ pc' = "running") => DurationLess(elapsed', sleep_duration)]_vars
    /\ [](repaints <= (TotalNanos(sleep_duration) + 10 * NanosPerMilli - 1)
                        \div (10 * NanosPerMilli))

C10_Witness ==
    /\ pc = "exit"
    /\ finals = 1
    /\ sleep_duration = DurationNew(0, 25 * NanosPerMilli)
    /\ repaints = 3

-----------------------------------------------------------------------------
(* Properties of parse_duration, stated on the tokens of ParseTokens *)

\* what the contract gives for a well-formed token, in milliseconds:
\* number x unit factor, the unit absent meaning seconds
ClaimedMillis(t) ==
    CASE t = <<"1", "0", "0", "0", "m", "s">> -> 1000
      [] t = <<"1", "s">>                     -> 1000
      [] t = <<"6", "0", "s">>                -> 60 * 1000
      [] t = <<"1", "0", "s">>                -> 10 * 1000
      [] t = <<"1", "m">>                     -> 60 * 1000
      [] t = <<"6", "0", "m">>                -> 60 * 60 * 1000
      [] t = <<"1", "h">>                     -> 3600 * 1000
      [] t = <<"2", "4", "h">>                -> 24 * 3600 * 1000
      [] t = <<"1", ".", "5", "h">>           -> 5400 * 1000
      [] t = <<"1", "d">>                     -> 86400 * 1000
      [] t = <<"5">>                          -> 5 * 1000
      [] t = <<"+", ".", "5">>                -> 500
      [] t = <<"-", "5", "s">>                -> 0 - 5000

\* the error the contract gives for a malformed token: the numeric part,
\* everything before the first letter, is judged before the unit
ClaimedError(t) ==
    CASE t = <<"1", "0", "x">>                     -> "InvalidUnit"
      [] t = <<"5", "S">>                          -> "InvalidUnit"
      [] t = <<"1", "e", "3">>                     -> "InvalidUnit"
      [] t = <<"-", "5", "x">>                     -> "InvalidUnit"
      [] t = <<"a", "b", "c", "s">>                -> "InvalidNumber"
      [] t = <<"1", ".", "2", ".", "3", "s">>      -> "InvalidNumber"
      [] t = <<>>                                  -> "InvalidNumber"
      [] OTHER                                     -> "none"

Malformed(ts) == {k \in 1..Len(ts) : ClaimedError(ts[k]) # "none"}

Negative(ts) == {k \in 1..Len(ts) : ts[k] = <<"-", "5", "s">>}

Least(S) == CHOOSE k \in S : \A j \in S : k <= j

RECURSIVE SumMillis(_)
SumMillis(ts) == IF ts = <<>> THEN 0 ELSE ClaimedMillis(Head(ts)) + SumMillis(Tail(ts))

\* the Duration of a number of milliseconds
OfMillis(ms) == DurationNew(ms \div 1000, (ms % 1000) * NanosPerMilli)

\* C5: for every list of well-formed tokens parse_duration returns the sum
\* of number x unit factor over the tokens.
C5_Claim ==
    (pc # "parse" /\ Malformed(times) = {}) =>
        /\ result = "Ok"
        /\ SumMillis(times) >= 0
        /\ duration = OfMillis(SumMillis(times))

\* C6: the first malformed token determines the error that parse_duration
\* returns, and no later token is examined.
C6_Claim ==
    (pc # "parse" /\ Malformed(times) # {}) =>
        /\ result = ClaimedError(times[Least(Malformed(times))])
        /\ idx = Least(Malformed(times))

\* C7: a negative token is accepted and subtracted: 10s then -5s give 5 s.
C7_Claim ==
    (pc # "parse" /\ times = << <<"1", "0", "s">>, <<"-", "5", "s">> >>) =>
        /\ result = "Ok"
        /\ duration = DurationNew(5, 0)

\* What the code does on the lists without a negative token: C5 and C6 hold.
ParseWithoutNegatives ==
    (pc # "parse" /\ Negative(times) = {}) =>
        IF Malformed(times) = {}
        THEN /\ result = "Ok"
             /\ idx = Len(times) + 1
             /\ duration = OfMillis(SumMillis(times))
        ELSE /\ result = ClaimedError(times[Least(Malformed(times))])
             /\ idx = Least(Malformed(times))

\* What the code does on a list with a negative token: it panics there,
\* unless a malformed token comes first.
ParseWithNegatives ==
    (pc # "parse" /\ Negative(times) # {}) =>
        IF Malformed(times) # {} /\ Least(Malformed(times)) < Least(Negative(times))
        THEN /\ result = ClaimedError(times[Least(Malformed(times))])
             /\ idx = Least(Malformed(times))
        ELSE /\ result = "panic"
             /\ idx = Least(Negative(times))
             /\ exit_code = 101

-----------------------------------------------------------------------------
(* Properties of format_duration *)

\* the decimal digits of n < 100, and of n < 1000, with leading zeros
TwoDigits(n) == DigitChars[(n \div 10) + 1] \o DigitChars[(n % 10) + 1]

ThreeDigits(n) == DigitChars[(n \div 100) + 1] \o TwoDigits(n % 100)

\* the decimal digits of n < 100 without leading zeros
Plain(n) == IF n < 10 THEN DigitChars[n + 1] ELSE TwoDigits(n)

\* C8: format_duration splits d, truncated to whole milliseconds, into
\* days >= 0, hours 0..23, minutes 0..59, seconds 0..59, milliseconds 0..999
\* that add up to it, and writes "{hours:02}h {minutes:02}m {seconds:02}s
\* {milliseconds:03}ms", with "{days}d " before it iff days > 0.
C8_FormatDecomposition ==
    pc = "formatted" =>
        LET total == seconds.secs * 1000 + seconds.nanos \div 1000000
            dd == FmtDays(seconds)
            hh == FmtHours(seconds)
            mm == FmtMinutes(seconds)
            ss == FmtSeconds(seconds)
            ms == FmtMilliseconds(seconds)
            tail == TwoDigits(hh) \o "h " \o TwoDigits(mm) \o "m "
                    \o TwoDigits(ss) \o "s " \o ThreeDigits(ms) \o "ms"
        IN  /\ dd >= 0 /\ hh \in 0..23 /\ mm \in 0..59 /\ ss \in 0..59 /\ ms \in 0..999
            /\ dd * 86400000 + hh * 3600000 + mm * 60000 + ss * 1000 + ms = total
            /\ formatted = IF dd > 0 THEN Plain(dd) \o "d " \o tail ELSE tail
            /\ seconds = DurationNew(90061, 500000000) => formatted = "1d 01h 01m 01s 500ms"
            /\ seconds = DurationNew(3661, 0) => formatted = "01h 01m 01s 000ms"

C8_Witness ==
    /\ pc = "formatted"
    /\ seconds = DurationNew(90061, 500000000)
    /\ formatted = "1d 01h 01m 01s 500ms"

====
